---------------------------- MODULE Spec2Model ----------------------------
(***************************************************************************)
(* Workflow engine of osapiens-backend: definition validation and graph    *)
(* building (WorkflowFactory), the polling worker (taskWorker), the task   *)
(* runner (TaskRunner.run) and the results route, over the persisted       *)
(* Workflow / Task / Result records.                                       *)
(*                                                                         *)
(* Persistence is TypeORM: save() writes the entity's own columns and the  *)
(* join columns of relations set on the saved object; findOne() returns a  *)
(* copy holding only the relations it was asked for (plus eager ones).     *)
(* Every await is a point where another handler may run, so each awaited   *)
(* call of the worker is one step of its program counter pc.               *)
(***************************************************************************)
EXTENDS Integers, Sequences, FiniteSets, TLC

\* ------------------------------------------------------------------ bounds
MaxWorkflows == 2
MaxSteps == 3
MaxTasks == 3
MaxApiTasks == 2
MaxCreateSteps == 2
MaxLiveTasks == 2

\* --------------------------------------------------------------- constants
\* TaskStatus (taskRunner.ts) and WorkflowStatus (WorkflowFactory.ts)
TaskStatus ==
    [Queued |-> "queued", InProgress |-> "in_progress", Completed |-> "completed",
     Failed |-> "failed", Skipped |-> "skipped"]

WorkflowStatus ==
    [Initial |-> "initial", InProgress |-> "in_progress", Completed |-> "completed",
     Failed |-> "failed"]

\* JobFactory.jobMap: the registered task types
jobMap == {"analysis", "notification", "polygonArea", "reportGeneration"}

\* HttpStatus
HttpStatus == [Ok |-> "200", BadRequest |-> "400", NotFound |-> "404"]

\* The four messages thrown by validateWorkflowDefinition
ErrTaskType == "Task type is required"
ErrStepNumber == "Step number is required"
ErrDependsOn == "Step can not depend on other steps that come after it"
ErrUnique == "Step numbers must be unique"
NoError == "ok"

\* ------------------------------------------------------------- identifiers
WorkflowIds == 1..MaxWorkflows
\* A task is identified by its workflow and its position in the step list
\* (the generated uuid is never ordered on, only compared for identity).
NoTask == <<0, 0>>
ClientIds == {"clientA", "clientB"}
RunClientIds == {"clientA"}

\* ------------------------------------------------------------- JS values
\* A JavaScript value is [t |-> type, v |-> text of the value].
Undefined == [t |-> "undefined", v |-> ""]
JsStr(s) == [t |-> "string", v |-> s]
JsNum(s) == [t |-> "number", v |-> s]
EmptyObject == [t |-> "object", v |-> ""]

\* ToBoolean: undefined, 0, "" are falsy; objects and other values truthy
Truthy(x) ==
    /\ x.t # "undefined"
    /\ ~(x.t = "number" /\ x.v = "0")
    /\ ~(x.t = "string" /\ x.v = "")

\* JSON.stringify of a value
JSONstringify(x) ==
    CASE x.t = "string" -> "\"" \o x.v \o "\""
      [] x.t = "number" -> x.v
      [] x.t = "object" -> "{" \o x.v \o "}"
      [] OTHER -> "undefined"

\* ----------------------------------------------------- workflow definition
\* A parsed step: taskType ("" when absent), stepNumber (0 when absent or 0),
\* dependsOn (the normalized list, as the set of its members; {} when absent:
\* only .some and .includes are ever applied to it).
Step(type, n, deps) == [taskType |-> type, stepNumber |-> n, dependsOn |-> deps]

stepErrorAllowsSelfDependency(step) ==
    IF step.taskType = "" THEN ErrTaskType
    ELSE IF step.stepNumber = 0 THEN ErrStepNumber
    ELSE IF \E d \in step.dependsOn : d > step.stepNumber THEN ErrDependsOn
    ELSE NoError

stepErrorIgnoresDependsOn(step) ==
    IF step.taskType = "" THEN ErrTaskType
    ELSE IF step.stepNumber = 0 THEN ErrStepNumber
    ELSE NoError

\* Error of one step, in the order of the three checks of the forEach body
stepError(step) ==
    IF step.taskType = "" THEN ErrTaskType
    ELSE IF step.stepNumber = 0 THEN ErrStepNumber
    ELSE IF \E d \in step.dependsOn : d >= step.stepNumber THEN ErrDependsOn
    ELSE NoError

validateWorkflowDefinitionMissingUnique(steps) ==
    LET bad == {k \in 1..Len(steps) : stepError(steps[k]) # NoError}
    IN  IF bad # {} THEN stepError(steps[CHOOSE k \in bad : \A j \in bad : k <= j])
        ELSE NoError

\* validateWorkflowDefinition: the first failing step's error, else the
\* uniqueness check over all step numbers, else NoError (no throw)
validateWorkflowDefinition(steps) ==
    LET bad == {k \in 1..Len(steps) : stepError(steps[k]) # NoError}
        stepNumbers == {steps[k].stepNumber : k \in 1..Len(steps)}
    IN  IF bad # {} THEN stepError(steps[CHOOSE k \in bad : \A j \in bad : k <= j])
        ELSE IF Cardinality(stepNumbers) # Len(steps) THEN ErrUnique
        ELSE NoError


\* ------------------------------------------------------ definition families
\* Definitions submitted while the worker runs: steps numbered 1..n in list
\* order, any dependsOn over earlier steps, registered or unregistered type.
RunTypes == {"analysis", "unknownType"}

\* The steps a definition may have at position k
RunSteps(k) ==
    {Step(type, k, deps) : type \in RunTypes, deps \in SUBSET (1..(k - 1))}

RECURSIVE RunDefinitionsOfLen(_)
RunDefinitionsOfLen(n) ==
    IF n = 0 THEN {<<>>}
    ELSE {Append(d, s) : d \in RunDefinitionsOfLen(n - 1), s \in RunSteps(n)}

RunDefinitions == UNION {RunDefinitionsOfLen(n) : n \in 0..MaxSteps}

\* Definitions for the creation-only specification: every step list of up to
\* MaxCreateSteps steps over these types, step numbers and dependsOn lists.
CreateTypes == {"", "analysis", "notification"}
CreateStepNumbers == (0 - 1)..MaxCreateSteps
CreateDependsOn == SUBSET (1..(MaxCreateSteps - 1))

CreateDefinitions ==
    UNION {[1..n -> [taskType : CreateTypes, stepNumber : CreateStepNumbers,
                     dependsOn : CreateDependsOn]] : n \in 0..MaxCreateSteps}

\* ------------------------------------------------------------------- state
VARIABLES
    workflows,   \* workflows table: workflowId -> row
    tasks,       \* tasks table: taskId -> row (dependant is the join column)
    results,     \* results table: sequence of rows, resultId = index
    creating,    \* createWorkflowFromYAML between its two saves, or Idle
    pc,          \* position of taskWorker / TaskRunner.run
    task,        \* the worker's in-memory Task entity
    result,      \* the runner's Result entity and its local taskResult
    raised,      \* the error run() is about to rethrow, or NoError
    invoked,     \* history: bag of job.run calls, taskId -> count
    contexts,    \* history: taskId -> dependenciesOutputs handed to its job
    lastReport,  \* history: workflowId -> report of its last recompute
    outcome,     \* what the last boundary operation answered
    request      \* creation-only specification: the call to make

vars == <<workflows, tasks, results, creating, pc, task, result, raised,
          invoked, contexts, lastReport, outcome, request>>

store == <<workflows, tasks, results>>
worker == <<pc, task, result, raised, invoked, contexts, lastReport>>

Idle == [stage |-> "idle", workflowId |-> 0, steps |-> <<>>, clientId |-> ""]
NoRequest == [steps |-> <<>>, clientId |-> "", input |-> ""]
NoOutcome == [op |-> "none"]
NoReport == [workflowId |-> 0, status |-> "", tasks |-> <<>>]
NoResult == [data |-> "null", error |-> "null", taskResult |-> Undefined]
NoEntity ==
    [taskId |-> NoTask, status |-> "", progress |-> "null", taskType |-> "",
     workflowId |-> 0, relations |-> {}, dependant |-> NoTask,
     dependantStatus |-> "", dependencies |-> <<>>, result |-> FALSE]

Inputs == {"geoJson"}

\* The columns of the three tables and the worker's locals
WorkflowsOK ==
    \A wid \in DOMAIN workflows :
        /\ wid \in WorkflowIds
        /\ workflows[wid].clientId \in ClientIds
        /\ workflows[wid].status \in
              {WorkflowStatus.Initial, WorkflowStatus.InProgress,
               WorkflowStatus.Completed, WorkflowStatus.Failed}
        /\ workflows[wid].input \in {JSONstringify([t |-> "object", v |-> i]) : i \in Inputs}

TasksOK ==
    \A t \in DOMAIN tasks :
        /\ tasks[t].workflowId \in DOMAIN workflows
        /\ tasks[t].workflowId = t[1]
        /\ tasks[t].clientId = workflows[tasks[t].workflowId].clientId
        /\ tasks[t].status \in
              {TaskStatus.Queued, TaskStatus.InProgress, TaskStatus.Completed,
               TaskStatus.Failed, TaskStatus.Skipped}
        /\ tasks[t].progress \in {"null", "starting job..."}
        /\ tasks[t].stepNumber \in Int
        /\ tasks[t].dependant \in DOMAIN tasks \cup {NoTask}

ResultsOK ==
    \A r \in DOMAIN results :
        /\ results[r].task \in DOMAIN tasks \cup {NoTask}
        /\ results[r].data = "null" \/ results[r].error = "null"

WorkerOK ==
    /\ pc \in {"sleep", "run", "job", "save_result", "save_task", "save_dependant",
               "recompute"}
    /\ pc # "sleep" => task.taskId \in DOMAIN tasks
    /\ task.dependant \in DOMAIN tasks \cup {NoTask}
    /\ creating.stage \in {"idle", "tasks"}
    /\ creating.stage = "tasks" => creating.workflowId \in DOMAIN workflows

TypeOK == WorkflowsOK /\ TasksOK /\ ResultsOK /\ WorkerOK

TasksOf(wid) == {t \in DOMAIN tasks : tasks[t].workflowId = wid}


Max(S) == CHOOSE x \in S : \A y \in S : y <= x
Min(S) == CHOOSE x \in S : \A y \in S : x <= y

\* The values a job may return and the messages it may throw
JobValues == {JsStr("X"), JsNum("0"), Undefined}
JobErrors == {"Failed to send email"}

\* -------------------------------------------------------- WorkflowFactory
\* createWorkflow: the new Workflow entity
createWorkflow(clientId, input) ==
    [clientId |-> clientId, status |-> WorkflowStatus.Initial,
     input |-> JSONstringify([t |-> "object", v |-> input]),
     finalResult |-> NoReport]

\* createTasks: one Task entity per step, in list order
createTasks(steps, wid, clientId) ==
    [k \in 1..Len(steps) |->
        [clientId |-> clientId, status |-> TaskStatus.Queued,
         taskType |-> steps[k].taskType, stepNumber |-> steps[k].stepNumber,
         workflowId |-> wid, progress |-> "null"]]

\* populateDependencies: position of task -> positions of its dependencies.
\* For each step with a dependsOn, tasks.find picks the first task with the
\* step's number and its dependencies are overwritten with the filter.
populateDependencies(steps) ==
    LET n == Len(steps)
        find(k) == Min({i \in 1..n : steps[i].stepNumber = steps[k].stepNumber})
        writers(i) == {k \in 1..n : steps[k].dependsOn # {} /\ find(k) = i}
    IN  [i \in 1..n |->
            IF writers(i) = {} THEN {}
            ELSE {j \in 1..n : steps[j].stepNumber \in steps[Max(writers(i))].dependsOn}]

\* The values save(tasks) may write to the dependant join column: a task in
\* the dependencies of one task gets that task; a task in the dependencies
\* of several gets one of them (a single column, written once per owner).
dependantOwnersAnyTask(steps, j) == 0..Len(steps)

dependantOwners(steps, j) ==
    LET deps == populateDependencies(steps)
        owners == {i \in 1..Len(steps) : j \in deps[i]}
    IN  IF owners = {} THEN {0} ELSE owners

RECURSIVE dependantColumnsUpTo(_, _)
dependantColumnsUpTo(steps, j) ==
    IF j = 0 THEN {<<>>}
    ELSE {Append(c, o) : c \in dependantColumnsUpTo(steps, j - 1),
                         o \in dependantOwners(steps, j)}

dependantColumns(steps) == dependantColumnsUpTo(steps, Len(steps))

createWorkflowFromYAMLSavesFirst(steps, clientId, input) ==
    /\ creating = Idle
    /\ \E wid \in WorkflowIds \ DOMAIN workflows :
         /\ workflows' = workflows @@ (wid :> createWorkflow(clientId, input))
         /\ LET error == validateWorkflowDefinition(steps)
            IN  IF error # NoError
                THEN /\ outcome' = [op |-> "create", error |-> error, workflowId |-> 0]
                     /\ UNCHANGED creating
                ELSE /\ creating' = [stage |-> "tasks", workflowId |-> wid,
                                     steps |-> steps, clientId |-> clientId]
                     /\ UNCHANGED outcome
    /\ UNCHANGED <<tasks, results, worker, request>>

\* createWorkflowFromYAML up to and including workflowRepository.save
createWorkflowFromYAML(steps, clientId, input) ==
    /\ creating = Idle
    /\ LET error == validateWorkflowDefinition(steps)
       IN  IF error # NoError
           THEN /\ outcome' = [op |-> "create", error |-> error, workflowId |-> 0]
                /\ UNCHANGED <<store, creating>>
           ELSE \E wid \in WorkflowIds \ DOMAIN workflows :
                /\ workflows' = workflows @@ (wid :> createWorkflow(clientId, input))
                /\ creating' = [stage |-> "tasks", workflowId |-> wid,
                                steps |-> steps, clientId |-> workflows'[wid].clientId]
                /\ UNCHANGED <<tasks, results, outcome>>
    /\ UNCHANGED <<worker, request>>

\* createWorkflowFromYAML from createTasks to its return
saveTasks ==
    /\ creating.stage = "tasks"
    /\ LET wid == creating.workflowId
           steps == creating.steps
           new == createTasks(steps, wid, creating.clientId)
       IN  \E c \in dependantColumns(steps) :
             /\ tasks' = tasks @@
                    [t \in {<<wid, k>> : k \in 1..Len(steps)} |->
                        new[t[2]] @@
                        [dependant |-> IF c[t[2]] = 0 THEN NoTask ELSE <<wid, c[t[2]]>>]]
             /\ outcome' = [op |-> "create", error |-> NoError, workflowId |-> wid]
    /\ creating' = Idle
    /\ UNCHANGED <<workflows, results, worker, request>>


\* ------------------------------------------------------------- repositories
\* Tasks of a workflow as the tasks relation lists them (insertion order)
TaskList(wid) ==
    [k \in 1..Cardinality(TasksOf(wid)) |-> <<wid, k>>]

\* The Result row joined to a task (results.taskId = task), if any
ResultOf(t) == {r \in DOMAIN results : results[r].task = t}

findOneQueuedByStepNumberFirst ==
    LET queued == {t \in DOMAIN tasks : tasks[t].status = TaskStatus.Queued}
        before(a, b) ==
            \/ tasks[a].stepNumber < tasks[b].stepNumber
            \/ /\ tasks[a].stepNumber = tasks[b].stepNumber
               /\ tasks[a].workflowId <= tasks[b].workflowId
    IN  IF queued = {} THEN NoTask
        ELSE CHOOSE t \in queued : \A u \in queued : before(t, u)

findOneQueuedLastStepFirst ==
    LET queued == {t \in DOMAIN tasks : tasks[t].status = TaskStatus.Queued}
        before(a, b) ==
            \/ tasks[a].workflowId < tasks[b].workflowId
            \/ /\ tasks[a].workflowId = tasks[b].workflowId
               /\ tasks[a].stepNumber >= tasks[b].stepNumber
    IN  IF queued = {} THEN NoTask
        ELSE CHOOSE t \in queued : \A u \in queued : before(t, u)

\* taskRepository.findOne({where: {status: Queued}, order: {workflowId, stepNumber}})
\* : the Queued task with the smallest (workflowId, stepNumber), or NoTask
findOneQueued ==
    LET queued == {t \in DOMAIN tasks : tasks[t].status = TaskStatus.Queued}
        before(a, b) ==
            \/ tasks[a].workflowId < tasks[b].workflowId
            \/ /\ tasks[a].workflowId = tasks[b].workflowId
               /\ tasks[a].stepNumber <= tasks[b].stepNumber
    IN  IF queued = {} THEN NoTask
        ELSE CHOOSE t \in queued : \A u \in queued : before(t, u)

\* The relations taskWorker asks findOne to load
workerRelations == {"workflow", "dependant"}

\* The Task entity findOne builds for row t with the given relations; a
\* relation that was not asked for is left undefined on the entity.
loadTask(t, relations) ==
    [taskId |-> t, status |-> tasks[t].status, progress |-> tasks[t].progress,
     taskType |-> tasks[t].taskType, workflowId |-> tasks[t].workflowId,
     relations |-> relations,
     dependant |-> IF "dependant" \in relations THEN tasks[t].dependant ELSE NoTask,
     dependantStatus |->
        IF "dependant" \in relations /\ tasks[t].dependant # NoTask
        THEN tasks[tasks[t].dependant].status ELSE "",
     dependencies |->
        IF "dependencies" \in relations
        THEN LET ups == {u \in DOMAIN tasks : tasks[u].dependant = t}
             IN  [i \in 1..Cardinality(ups) |-> "undefined"]
        ELSE <<>>,
     result |-> FALSE]

\* --------------------------------------------------------------- TaskRunner
\* getJobContext: dependency.result?.data of every loaded dependency; no
\* dependency at all when the entity carries no dependencies relation
getJobContext(e) ==
    IF "dependencies" \in e.relations THEN e.dependencies ELSE <<>>

\* JobFactory.get: TRUE when the lookup throws
JobFactoryGetThrows(taskType) == taskType \notin jobMap

\* WorkflowReportGenerator.stringifyTask on a task of a workflow loaded with
\* relations ['tasks']: task.result is not loaded, so both ?. reads are
\* undefined and print as 'none'
stringifyTask(t, withResult) ==
    LET rs == IF withResult THEN ResultOf(t) ELSE {}
        data == IF rs = {} THEN "undefined" ELSE results[CHOOSE r \in rs : TRUE].data
        error == IF rs = {} THEN "undefined" ELSE results[CHOOSE r \in rs : TRUE].error
    IN  [taskId |-> t, type |-> tasks[t].taskType, status |-> tasks[t].status,
         result |-> IF data \in {"undefined", "null", ""} THEN "none" ELSE data,
         error |-> IF error \in {"undefined", "null", ""} THEN "none" ELSE error]

\* WorkflowReportGenerator.generateAggregatedReport
generateAggregatedReport(wid, status, withResult) ==
    LET list == TaskList(wid)
    IN  [workflowId |-> wid, status |-> status,
         tasks |-> [k \in 1..Len(list) |-> stringifyTask(list[k], withResult)]]

aggregateStatusSomeCompleted(wid) ==
    LET ts == TasksOf(wid)
        allCompleted == \E t \in ts : tasks[t].status = TaskStatus.Completed
        anyFailed == \E t \in ts : tasks[t].status = TaskStatus.Failed
    IN  IF anyFailed THEN WorkflowStatus.Failed
        ELSE IF allCompleted THEN WorkflowStatus.Completed
        ELSE WorkflowStatus.InProgress

aggregateStatusFailedWhilePending(wid) ==
    LET ts == TasksOf(wid)
        allCompleted == \A t \in ts : tasks[t].status = TaskStatus.Completed
        anyFailed == /\ \E t \in ts : tasks[t].status = TaskStatus.Failed
                     /\ \E t \in ts : tasks[t].status = TaskStatus.Queued
    IN  IF anyFailed THEN WorkflowStatus.Failed
        ELSE IF allCompleted THEN WorkflowStatus.Completed
        ELSE WorkflowStatus.InProgress

\* The status run() derives from the tasks of the reloaded workflow
aggregateStatus(wid) ==
    LET ts == TasksOf(wid)
        allCompleted == \A t \in ts : tasks[t].status = TaskStatus.Completed
        anyFailed == \E t \in ts : tasks[t].status = TaskStatus.Failed
    IN  IF anyFailed THEN WorkflowStatus.Failed
        ELSE IF allCompleted THEN WorkflowStatus.Completed
        ELSE WorkflowStatus.InProgress


\* run(): result.data = JSON.stringify(taskResult || {})
resultData(taskResult) ==
    JSONstringify(IF Truthy(taskResult) THEN taskResult ELSE EmptyObject)

tryBlockSkipsDependant(e) ==
    [e EXCEPT !.result = TRUE, !.status = TaskStatus.Completed, !.progress = "null",
              !.dependantStatus =
                  IF e.dependant # NoTask THEN TaskStatus.Skipped ELSE @]

\* run(): what the try block does to the task entity once the job returned
tryBlock(e) ==
    [e EXCEPT !.result = TRUE, !.status = TaskStatus.Completed, !.progress = "null"]

catchBlockRequeues(e) ==
    [e EXCEPT !.status = TaskStatus.Queued, !.progress = "null",
              !.dependantStatus =
                  IF e.dependant # NoTask THEN TaskStatus.Skipped ELSE @]

\* run(): what the catch block does to the task entity and its dependant
catchBlock(e) ==
    [e EXCEPT !.status = TaskStatus.Failed, !.progress = "null",
              !.dependantStatus =
                  IF e.dependant # NoTask THEN TaskStatus.Skipped ELSE @]

afterFinallyUncaught == IF raised # NoError THEN "stopped" ELSE "recompute"

\* What run() does once the finally block is through: the rethrown error
\* leaves run() and is caught by taskWorker, otherwise run() goes on
afterFinally == IF raised # NoError THEN "sleep" ELSE "recompute"

finallyWritesDependantFirst == <<"save_result", "save_dependant", "save_task">>

finallyWritesTaskFirst == <<"save_task", "save_result", "save_dependant">>

\* run(): the saves of the finally block, in the order of its statements
finallyWrites == <<"save_result", "save_task", "save_dependant">>

\* The step of run() that follows save s of the finally block for entity e:
\* the next save (the dependant's only if the entity has one), or what
\* follows the finally block
afterWrite(s, e) ==
    LET i == CHOOSE k \in 1..Len(finallyWrites) : finallyWrites[k] = s
        rest == {k \in (i + 1)..Len(finallyWrites) :
                    finallyWrites[k] = "save_dependant" => e.dependant # NoTask}
    IN  IF rest = {} THEN afterFinally ELSE finallyWrites[Min(rest)]

\* --------------------------------------------------------------- taskWorker
\* One poll: the setTimeout has elapsed and findOne answers
Poll ==
    /\ pc = "sleep"
    /\ LET t == findOneQueued
       IN  IF t = NoTask
           THEN /\ task' = NoEntity
                /\ pc' = "sleep"
           ELSE /\ task' = loadTask(t, workerRelations)
                /\ pc' = "run"
    /\ result' = NoResult
    /\ raised' = NoError
    /\ UNCHANGED <<store, creating, invoked, contexts, lastReport, outcome, request>>

\* run(): status InProgress, progress note, taskRepository.save(task)
RunStart ==
    /\ pc = "run"
    /\ task' = [task EXCEPT !.status = TaskStatus.InProgress,
                            !.progress = "starting job..."]
    /\ tasks' = [tasks EXCEPT ![task.taskId].status = task'.status,
                              ![task.taskId].progress = task'.progress]
    /\ pc' = "job"
    /\ UNCHANGED <<workflows, results, creating, result, raised, invoked, contexts,
                   lastReport, outcome, request>>

\* run(): JobFactory.get, new Result(), then the try block up to the end of
\* the catch block: the job is called with its context and returns or throws
RunJob ==
    /\ pc = "job"
    /\ IF JobFactoryGetThrows(task.taskType)
       THEN /\ pc' = "sleep"
            /\ raised' = "No job found for task type"
            /\ UNCHANGED <<task, result, invoked, contexts>>
       ELSE /\ invoked' = IF task.taskId \in DOMAIN invoked
                           THEN [invoked EXCEPT ![task.taskId] = @ + 1]
                           ELSE invoked @@ (task.taskId :> 1)
            /\ contexts' = (task.taskId :> getJobContext(task)) @@ contexts
            /\ pc' = finallyWrites[1]
            /\ \/ \E taskResult \in JobValues :
                    /\ result' = [NoResult EXCEPT !.data = resultData(taskResult),
                                                   !.taskResult = taskResult]
                    /\ task' = tryBlock(task)
                    /\ raised' = NoError
               \/ \E message \in JobErrors :
                    /\ task' = catchBlock(task)
                    /\ result' = [NoResult EXCEPT !.error = message]
                    /\ raised' = message
    /\ UNCHANGED <<store, creating, lastReport, outcome, request>>

\* The Result row of the current run: the task and the number of the call
resultId == <<task.taskId, invoked[task.taskId]>>

\* finally: resultRepository.save(result); result.task was never set, so
\* the row is inserted with no owning task
SaveResult ==
    /\ pc = "save_result"
    /\ results' = (resultId :> [task |-> NoTask, data |-> result.data,
                                error |-> result.error]) @@ results
    /\ pc' = afterWrite("save_result", task)
    /\ UNCHANGED <<workflows, tasks, creating, task, result, raised, invoked,
                   contexts, lastReport, outcome, request>>

\* finally: taskRepository.save(task); a result set on the task (the inverse
\* side of the one-to-one) makes save write the Result row's join column
SaveTask ==
    /\ pc = "save_task"
    /\ tasks' = [tasks EXCEPT ![task.taskId].status = task.status,
                              ![task.taskId].progress = task.progress]
    /\ results' = IF task.result
                  THEN [results EXCEPT ![resultId].task = task.taskId]
                  ELSE results
    /\ pc' = afterWrite("save_task", task)
    /\ UNCHANGED <<workflows, creating, task, result, raised, invoked, contexts,
                   lastReport, outcome, request>>

saveDependantCascades(ts, e) ==
    LET next == ts[e.dependant].dependant
    IN  IF e.dependantStatus = TaskStatus.Skipped /\ next # NoTask
        THEN [ts EXCEPT ![e.dependant].status = e.dependantStatus,
                        ![next].status = TaskStatus.Skipped]
        ELSE [ts EXCEPT ![e.dependant].status = e.dependantStatus]

\* taskRepository.save(task.dependant): the tasks table after the save of
\* the dependant entity held by task entity e
saveDependant(ts, e) == [ts EXCEPT ![e.dependant].status = e.dependantStatus]

\* finally: taskRepository.save(task.dependant)
SaveDependant ==
    /\ pc = "save_dependant"
    /\ tasks' = saveDependant(tasks, task)
    /\ pc' = afterWrite("save_dependant", task)
    /\ UNCHANGED <<workflows, results, creating, task, result, raised, invoked,
                   contexts, lastReport, outcome, request>>

recomputeClearsInput(w, wid) ==
    LET status == aggregateStatus(wid)
    IN  [w EXCEPT !.status = status, !.input = "null",
                  !.finalResult = generateAggregatedReport(wid, status, FALSE)]

recomputeReportsStatusAsLoaded(w, wid) ==
    [w EXCEPT !.status = aggregateStatus(wid),
              !.finalResult = generateAggregatedReport(wid, w.status, FALSE)]

\* run() lines 86-100 on the workflow row w just loaded with its tasks: the
\* status is assigned first, then the report is generated from the entity
\* that already carries the new status
recompute(w, wid) ==
    LET status == aggregateStatus(wid)
    IN  [w EXCEPT !.status = status,
                  !.finalResult = generateAggregatedReport(wid, status, FALSE)]

\* run() after the try statement: reload the workflow with its tasks, derive
\* the status, regenerate the report, workflowRepository.save
Recompute ==
    /\ pc = "recompute"
    /\ LET wid == task.workflowId
           saved == recompute(workflows[wid], wid)
       IN  /\ workflows' = [workflows EXCEPT ![wid] = saved]
           /\ lastReport' = (wid :> saved.finalResult) @@ lastReport
    /\ pc' = "sleep"
    /\ UNCHANGED <<tasks, results, creating, task, result, raised, invoked,
                   contexts, outcome, request>>

\* ------------------------------------------------------------ workflowRoutes
isCompletedUnlessInitial(status) == status # WorkflowStatus.Initial

\* Workflow.isCompleted
isCompleted(status) == status \in {WorkflowStatus.Completed, WorkflowStatus.Failed}

\* take(workflow, ['workflowId', 'status', 'finalResult'])
take(wid) ==
    [workflowId |-> wid, status |-> workflows[wid].status,
     finalResult |-> workflows[wid].finalResult]

\* GET /:id/results
GetResults(wid) ==
    /\ outcome' =
         IF wid \notin DOMAIN workflows
         THEN [op |-> "results", id |-> wid, code |-> HttpStatus.NotFound]
         ELSE IF ~isCompleted(workflows[wid].status)
         THEN [op |-> "results", id |-> wid, code |-> HttpStatus.BadRequest]
         ELSE [op |-> "results", id |-> wid, code |-> HttpStatus.Ok,
               body |-> take(wid)]
    /\ UNCHANGED <<store, creating, worker, request>>

\* ------------------------------------------------------------ specification
Init ==
    /\ workflows = <<>>
    /\ tasks = <<>>
    /\ results = <<>>
    /\ creating = Idle
    /\ pc = "sleep"
    /\ task = NoEntity
    /\ result = NoResult
    /\ raised = NoError
    /\ invoked = <<>>
    /\ contexts = <<>>
    /\ lastReport = <<>>
    /\ outcome = NoOutcome
    /\ request = NoRequest

\* A create-workflow call with an accepted definition, while a workflow id
\* is free and the store holds at most limit tasks after it
Create(limit, clientIds) ==
    /\ creating = Idle
    /\ WorkflowIds \ DOMAIN workflows # {}
    /\ \E n \in 0..MaxSteps :
         /\ Cardinality(DOMAIN tasks) + n <= limit
         /\ \E steps \in RunDefinitionsOfLen(n), clientId \in clientIds, input \in Inputs :
              createWorkflowFromYAML(steps, clientId, input)

Next ==
    \/ Create(MaxTasks, RunClientIds)
    \/ saveTasks
    \/ Poll
    \/ RunStart
    \/ RunJob
    \/ SaveResult
    \/ SaveTask
    \/ SaveDependant
    \/ Recompute

Spec == Init /\ [][Next]_vars

\* The engine with the results route answering requests
NextApi ==
    \/ Create(MaxApiTasks, RunClientIds)
    \/ saveTasks
    \/ Poll
    \/ RunStart
    \/ RunJob
    \/ SaveResult
    \/ SaveTask
    \/ SaveDependant
    \/ Recompute
    \/ \E wid \in WorkflowIds : GetResults(wid)

SpecApi == Init /\ [][NextApi]_vars

\* The engine under a fair polling loop: the loop of taskWorker never ends,
\* its timer fires and every awaited call (the job included) returns
Worker ==
    \/ Poll
    \/ RunStart
    \/ RunJob
    \/ SaveResult
    \/ SaveTask
    \/ SaveDependant
    \/ Recompute

NextLive ==
    \/ Create(MaxLiveTasks, RunClientIds)
    \/ saveTasks
    \/ Worker

SpecLive == Init /\ [][NextLive]_vars /\ WF_vars(Worker)

\* One create-workflow call on an empty store, for every definition
InitCreate ==
    /\ workflows = <<>>
    /\ tasks = <<>>
    /\ results = <<>>
    /\ creating = Idle
    /\ pc = "sleep"
    /\ task = NoEntity
    /\ result = NoResult
    /\ raised = NoError
    /\ invoked = <<>>
    /\ contexts = <<>>
    /\ lastReport = <<>>
    /\ outcome = NoOutcome
    /\ request \in [steps : CreateDefinitions, clientId : ClientIds, input : Inputs]

NextCreate ==
    \/ /\ outcome = NoOutcome
       /\ createWorkflowFromYAML(request.steps, request.clientId, request.input)
    \/ saveTasks

SpecCreate == InitCreate /\ [][NextCreate]_vars

\* One create-workflow call on an empty store, for every definition of the
\* running engine (up to MaxSteps steps, any dependsOn over earlier steps)
InitGraph ==
    /\ workflows = <<>>
    /\ tasks = <<>>
    /\ results = <<>>
    /\ creating = Idle
    /\ pc = "sleep"
    /\ task = NoEntity
    /\ result = NoResult
    /\ raised = NoError
    /\ invoked = <<>>
    /\ contexts = <<>>
    /\ lastReport = <<>>
    /\ outcome = NoOutcome
    /\ request \in [steps : RunDefinitions, clientId : ClientIds, input : Inputs]

SpecGraph == InitGraph /\ [][NextCreate]_vars

\* ------------------------------------------------------------- properties
\* run(task) has returned or raised and the worker is in its sleep
Finished == pc = "sleep" /\ task.taskId # NoTask

\* The job of the task the worker holds was called
JobRan == task.taskId \in DOMAIN invoked

\* The aggregate of section 4.5 step 7, from the persisted task statuses
AggregateOf(wid) ==
    IF \E t \in TasksOf(wid) : tasks[t].status = "failed" THEN "failed"
    ELSE IF \A t \in TasksOf(wid) : tasks[t].status = "completed" THEN "completed"
    ELSE "in_progress"

\* Workflow wid was built from steps [1, 2 dependsOn 1]
IsOneThenTwo(wid) ==
    /\ TasksOf(wid) = {<<wid, 1>>, <<wid, 2>>}
    /\ tasks[<<wid, 1>>].stepNumber = 1
    /\ tasks[<<wid, 2>>].stepNumber = 2
    /\ tasks[<<wid, 1>>].dependant = <<wid, 2>>
    /\ tasks[<<wid, 2>>].dependant = NoTask

\* The run of task t is over: the worker sleeps after it or holds another task
RunOver(t) == pc = "sleep" \/ task.taskId # t

\* C1: once run() is over for a task whose job ran (and returned or threw),
\* the status of the task's workflow is the aggregate of its tasks' statuses.
C1_StatusIsAggregateAfterRun ==
    (Finished /\ JobRan) =>
        workflows[task.workflowId].status = AggregateOf(task.workflowId)

\* C2: in a workflow of steps [1, 2 dependsOn 1], once the run of step 1's
\* task is over and its job has failed, step 2's task is Skipped, its job
\* was never called and the workflow is Failed.
C2_FailedStepSkipsConsumerAndFailsWorkflow ==
    \A wid \in DOMAIN workflows :
        (/\ IsOneThenTwo(wid)
         /\ tasks[<<wid, 1>>].status = "failed"
         /\ RunOver(<<wid, 1>>))
        => /\ tasks[<<wid, 2>>].status = "skipped"
           /\ <<wid, 2>> \notin DOMAIN invoked
           /\ workflows[wid].status = "failed"

\* C3: once run() is over for a task of an unregistered type, the task is
\* Failed (not InProgress) and a Result row records the error.
C3_UnknownTypeEndsFailed ==
    (Finished /\ task.taskType \notin jobMap) =>
        /\ tasks[task.taskId].status = "failed"
        /\ \E r \in DOMAIN results : results[r].error # "null"

\* C4: the dependenciesOutputs handed to a job are the data of the Results
\* of the task's upstream tasks, one per upstream task (checked where every
\* upstream task completed); for [1, 2 dependsOn 1] with step 1 completed
\* with X it is exactly [X].
C4_ContextHoldsUpstreamOutputs ==
    \A t \in DOMAIN contexts :
        LET ups == {u \in DOMAIN tasks : tasks[u].dependant = t}
            outs == {contexts[t][i] : i \in 1..Len(contexts[t])}
        IN  (\A u \in ups : tasks[u].status = "completed") =>
                /\ \A u \in ups : \E r \in ResultOf(u) : results[r].data \in outs
                /\ Len(contexts[t]) = Cardinality(ups)

\* C5: a persisted task status changes only along Queued -> InProgress,
\* InProgress -> Completed, InProgress -> Failed, Queued -> Skipped (so
\* Completed, Failed and Skipped are kept for ever), no task is deleted, and
\* a task becomes Skipped only in the save that follows the save of its
\* producer as Failed.
C5_TaskStatusEdges ==
    [][\A t \in DOMAIN tasks :
         /\ t \in DOMAIN tasks'
         /\ tasks'[t].status # tasks[t].status =>
              /\ <<tasks[t].status, tasks'[t].status>> \in
                    {<<"queued", "in_progress">>, <<"in_progress", "completed">>,
                     <<"in_progress", "failed">>, <<"queued", "skipped">>}
              /\ tasks'[t].status = "skipped" =>
                    /\ pc = "save_dependant"
                    /\ tasks[task.taskId].dependant = t
                    /\ tasks[task.taskId].status = "failed"]_vars

C5_Witness ==
    \E t, u, v \in DOMAIN tasks :
        /\ tasks[t].status = "skipped"
        /\ tasks[u].status = "failed" /\ tasks[u].dependant = t
        /\ tasks[v].status = "completed"

\* C6: a workflow is Completed only while all its tasks are Completed, and
\* it is Completed once run() is over for a task of it and all are Completed
\* (for [1,2,3]: not before the recompute that follows task 3, and after it).
C6_CompletedIffAllTasksCompleted ==
    \A wid \in DOMAIN workflows :
        /\ workflows[wid].status = "completed" =>
              /\ TasksOf(wid) # {}
              /\ \A t \in TasksOf(wid) : tasks[t].status = "completed"
        /\ (/\ Finished
            /\ task.workflowId = wid
            /\ \A t \in TasksOf(wid) : tasks[t].status = "completed")
           => workflows[wid].status = "completed"

C6_Witness ==
    \E wid \in DOMAIN workflows :
        /\ Cardinality(TasksOf(wid)) = 3
        /\ workflows[wid].status = "completed"
        /\ Finished /\ task.taskId = <<wid, 3>>

\* C7: a results request for a workflow that is Initial or InProgress is
\* rejected; for one that is Completed or Failed it succeeds and returns the
\* status and the report of the workflow's last recompute.
C7_ResultsOnlyOnceTerminal ==
    [][\A wid \in DOMAIN workflows :
         GetResults(wid) =>
            /\ workflows[wid].status \in {"initial", "in_progress"} =>
                  outcome'.code = "400"
            /\ workflows[wid].status \in {"completed", "failed"} =>
                  /\ outcome'.code = "200"
                  /\ outcome'.body.status = workflows[wid].status
                  /\ outcome'.body.finalResult = lastReport[wid]]_vars

C7_Witness ==
    /\ outcome.op = "results"
    /\ outcome.code = "200"
    /\ outcome.body.status = "failed"
    /\ outcome.body.finalResult = lastReport[outcome.id]
    /\ Len(outcome.body.finalResult.tasks) = 2
    /\ \E wid \in DOMAIN workflows : workflows[wid].status = "initial"

\* C8: after create-workflow has accepted a definition of N steps there is
\* one workflow, Initial, with exactly N tasks, all Queued; each step number
\* of the definition is carried by exactly one task, which has the step's
\* task type, the workflow's id and the caller's client id.
C8_CreatePersistsOneTaskPerStep ==
    (outcome.op = "create" /\ outcome.error = NoError) =>
        LET wid == outcome.workflowId
            steps == request.steps
        IN  /\ DOMAIN workflows = {wid}
            /\ workflows[wid].status = "initial"
            /\ workflows[wid].clientId = request.clientId
            /\ DOMAIN tasks = TasksOf(wid)
            /\ Cardinality(DOMAIN tasks) = Len(steps)
            /\ \A t \in DOMAIN tasks :
                  /\ tasks[t].status = "queued"
                  /\ tasks[t].clientId = request.clientId
            /\ \A k \in 1..Len(steps) :
                  \E t \in DOMAIN tasks :
                    /\ tasks[t].stepNumber = steps[k].stepNumber
                    /\ tasks[t].taskType = steps[k].taskType
                    /\ \A u \in DOMAIN tasks :
                          tasks[u].stepNumber = steps[k].stepNumber => u = t

C8_Witness ==
    /\ outcome.op = "create" /\ outcome.error = NoError
    /\ Len(request.steps) = MaxCreateSteps
    /\ Cardinality(DOMAIN tasks) = MaxCreateSteps
    /\ request.steps[1].stepNumber > request.steps[2].stepNumber
    /\ request.steps[1].taskType # request.steps[2].taskType

\* The four rule violations of section 4.1, read off the definition
HasEmptyTaskType(steps) == \E k \in 1..Len(steps) : steps[k].taskType = ""
HasNoStepNumber(steps) == \E k \in 1..Len(steps) : steps[k].stepNumber = 0
HasLateDependency(steps) ==
    \E k \in 1..Len(steps) : \E d \in steps[k].dependsOn : d >= steps[k].stepNumber
HasDuplicateStepNumber(steps) ==
    \E j, k \in 1..Len(steps) : j # k /\ steps[j].stepNumber = steps[k].stepNumber

\* C9: a definition is rejected exactly when it has a step with an empty
\* task type, a step with no or zero step number, a step depending on a
\* step number >= its own, or two steps with one step number; the error
\* names a rule the definition breaks, a definition breaking one rule only
\* gets that rule's error, and the four errors differ.
C9_ValidationRejectsTheFourCases ==
    outcome.op = "create" =>
        LET steps == request.steps
            e == outcome.error
        IN  /\ e # NoError <=> \/ HasEmptyTaskType(steps)
                               \/ HasNoStepNumber(steps)
                               \/ HasLateDependency(steps)
                               \/ HasDuplicateStepNumber(steps)
            /\ e \in {NoError, ErrTaskType, ErrStepNumber, ErrDependsOn, ErrUnique}
            /\ Cardinality({ErrTaskType, ErrStepNumber, ErrDependsOn, ErrUnique}) = 4
            /\ e = ErrTaskType => HasEmptyTaskType(steps)
            /\ e = ErrStepNumber => HasNoStepNumber(steps)
            /\ e = ErrDependsOn => HasLateDependency(steps)
            /\ e = ErrUnique => HasDuplicateStepNumber(steps)
            /\ (HasEmptyTaskType(steps) /\ ~HasNoStepNumber(steps)
                  /\ ~HasLateDependency(steps) /\ ~HasDuplicateStepNumber(steps))
               => e = ErrTaskType
            /\ (~HasEmptyTaskType(steps) /\ HasNoStepNumber(steps)
                  /\ ~HasLateDependency(steps) /\ ~HasDuplicateStepNumber(steps))
               => e = ErrStepNumber
            /\ (~HasEmptyTaskType(steps) /\ ~HasNoStepNumber(steps)
                  /\ HasLateDependency(steps) /\ ~HasDuplicateStepNumber(steps))
               => e = ErrDependsOn
            /\ (~HasEmptyTaskType(steps) /\ ~HasNoStepNumber(steps)
                  /\ ~HasLateDependency(steps) /\ HasDuplicateStepNumber(steps))
               => e = ErrUnique

C9_Witness ==
    /\ outcome.op = "create"
    /\ outcome.error = ErrUnique
    /\ Len(request.steps) = MaxCreateSteps
    /\ ~HasLateDependency(request.steps)
    /\ \E k \in 1..MaxCreateSteps : request.steps[k].dependsOn # {}

\* C10: a create-workflow call that fails validation leaves the workflows,
\* tasks and results tables as they were.
C10_RejectedCreatePersistsNothing ==
    [][(outcome' # outcome /\ outcome'.op = "create" /\ outcome'.error # NoError)
         => UNCHANGED store]_vars

C10_Witness ==
    /\ outcome.op = "create"
    /\ outcome.error = ErrDependsOn
    /\ workflows = <<>> /\ tasks = <<>>

\* C11: recomputing the aggregate of a workflow a second time against the
\* same tasks gives the same status and the same report: in every state a
\* recompute applied to the outcome of a recompute changes nothing, and a
\* workflow whose recompute has just run is a fixed point of the recompute.
C11_RecomputeIsIdempotent ==
    /\ \A wid \in DOMAIN workflows :
          LET once == recompute(workflows[wid], wid)
          IN  recompute(once, wid) = once
    /\ (Finished /\ JobRan /\ raised = NoError) =>
          recompute(workflows[task.workflowId], task.workflowId)
              = workflows[task.workflowId]

C11_Witness ==
    /\ Finished /\ JobRan /\ raised = NoError
    /\ Cardinality(TasksOf(task.workflowId)) = 2
    /\ workflows[task.workflowId].status = "completed"
    /\ workflows[task.workflowId].finalResult.status = "completed"

\* The payload of field f ("data" or "error") of the Result owned by task t
\* as a report is to show it: the payload, or the absence marker when the
\* task owns no Result or the Result's field is null
PayloadShown(t, f) ==
    IF ResultOf(t) = {} THEN "none"
    ELSE LET r == CHOOSE r \in ResultOf(t) : TRUE
         IN  IF results[r][f] = "null" THEN "none" ELSE results[r][f]

\* C12: the report stored by the recompute has exactly one entry per task of
\* the workflow, with the task's id, type and current status, and with the
\* success and error payloads of the task's Result, the absence marker
\* standing only for a payload the task does not have.
C12_ReportShowsEveryTaskAndPayload ==
    (Finished /\ JobRan /\ raised = NoError) =>
        LET wid == task.workflowId
            report == workflows[wid].finalResult
        IN  /\ Len(report.tasks) = Cardinality(TasksOf(wid))
            /\ \A t \in TasksOf(wid) :
                 \E k \in 1..Len(report.tasks) :
                    /\ report.tasks[k].taskId = t
                    /\ report.tasks[k].type = tasks[t].taskType
                    /\ report.tasks[k].status = tasks[t].status
                    /\ report.tasks[k].result = PayloadShown(t, "data")
                    /\ report.tasks[k].error = PayloadShown(t, "error")

NoneQueued == \A t \in DOMAIN tasks : tasks[t].status # "queued"

\* C13: with a fair polling loop, terminating jobs and finitely many
\* workflows, whatever errors the runs of tasks raise, again and again no
\* task is Queued, and a task leaves Queued only by becoming InProgress
\* (handed to the runner) or Skipped: so every Queued task is eventually
\* handed to the runner or Skipped, and eventually none is Queued.
C13_QueuedTasksAreEventuallyTaken ==
    /\ []<>NoneQueued
    /\ [][\A t \in DOMAIN tasks :
            (tasks[t].status = "queued" /\ tasks'[t].status # "queued") =>
                tasks'[t].status \in {"in_progress", "skipped"}]_vars

C13_Witness ==
    /\ NoneQueued
    /\ \E wid \in DOMAIN workflows :
          /\ TasksOf(wid) = {<<wid, 1>>, <<wid, 2>>}
          /\ tasks[<<wid, 1>>].status = "failed"
          /\ tasks[<<wid, 1>>].dependant = NoTask
          /\ tasks[<<wid, 2>>].status = "completed"

\* Task t has been handed to the Task Runner: the worker holds it, or its
\* persisted status shows that run() was entered for it
Handed(t) ==
    \/ pc # "sleep" /\ task.taskId = t
    \/ tasks[t].status \in {"in_progress", "completed", "failed"}

\* u is upstream of t: a persisted upstream dependency of t, or a task of
\* t's workflow with a smaller step number (every dependsOn of an accepted
\* step is one)
Upstream(u, t) ==
    /\ tasks[u].workflowId = tasks[t].workflowId
    /\ tasks[u].dependant = t \/ tasks[u].stepNumber < tasks[t].stepNumber

\* C14: when a task is handed to the Task Runner none of its upstream
\* dependencies is Queued any more, and none is while or after it runs.
C14_UpstreamLeftQueuedBeforeConsumer ==
    \A t \in DOMAIN tasks :
        Handed(t) => \A u \in DOMAIN tasks : Upstream(u, t) => tasks[u].status # "queued"

C14_Witness ==
    /\ pc = "run"
    /\ \E u, v \in DOMAIN tasks :
          /\ u # v
          /\ tasks[u].dependant = task.taskId
          /\ tasks[v].dependant = task.taskId
          /\ tasks[u].status = "completed"
          /\ tasks[task.taskId].status = "queued"

\* C15: a workflow whose persisted status is Failed keeps that status in
\* every later step, whichever task runs and whatever its job does.
C15_FailedWorkflowStaysFailed ==
    [][\A wid \in DOMAIN workflows :
         workflows[wid].status = "failed" =>
            /\ wid \in DOMAIN workflows'
            /\ workflows'[wid].status = "failed"]_vars

C15_Witness ==
    /\ Finished /\ JobRan /\ raised = NoError
    /\ workflows[task.workflowId].status = "failed"
    /\ \E t, u \in TasksOf(task.workflowId) :
          /\ tasks[t].stepNumber < tasks[u].stepNumber
          /\ tasks[u].stepNumber < tasks[task.taskId].stepNumber
          /\ tasks[t].status = "failed"
          /\ tasks[u].status = "completed"
          /\ tasks[task.taskId].status = "completed"

\* The positions of the steps of a definition that list step j in dependsOn
Consumers(steps, j) ==
    {i \in 1..Len(steps) : steps[j].stepNumber \in steps[i].dependsOn}

\* C16: once an accepted definition is persisted, each task is the upstream
\* dependency of at most one task: of none when no step lists it, of exactly
\* one of the steps that list it otherwise (also when two steps list it);
\* nothing bounds the number of upstream dependencies of a task.
C16_AtMostOneConsumerPerTask ==
    (outcome.op = "create" /\ outcome.error = NoError) =>
        LET wid == outcome.workflowId
            steps == request.steps
        IN  \A j \in 1..Len(steps) :
              LET consumers == {t \in DOMAIN tasks : tasks[<<wid, j>>].dependant = t}
              IN  /\ Cardinality(consumers) <= 1
                  /\ consumers \subseteq {<<wid, i>> : i \in Consumers(steps, j)}
                  /\ Consumers(steps, j) # {} => consumers # {}

C16_Witness ==
    /\ outcome.op = "create" /\ outcome.error = NoError
    /\ Len(request.steps) = 3
    /\ Cardinality(Consumers(request.steps, 1)) = 2
    /\ \E t \in DOMAIN tasks :
          Cardinality({u \in DOMAIN tasks : tasks[u].dependant = t}) = 2

\* C17: once run() is over for a task whose job failed, the task is
\* persisted Failed with its progress note cleared, a Result owned by the
\* task holds the failure's message as error and null as data, and the
\* task's consumer, if it has one, is persisted Skipped.
C17_FailureIsRecordedOnTheTask ==
    (Finished /\ JobRan /\ raised # NoError) =>
        LET t == task.taskId
        IN  /\ tasks[t].status = "failed"
            /\ tasks[t].progress = "null"
            /\ \E r \in ResultOf(t) :
                  results[r].error = raised /\ results[r].data = "null"
            /\ tasks[t].dependant # NoTask =>
                  tasks[tasks[t].dependant].status = "skipped"

\* C18: once run() is over for a task whose job returned, the task is
\* persisted Completed with its progress note cleared and owns a Result with
\* a null error whose data is the serialization of the returned value, 0 and
\* the empty string included; the data is the empty object only when the job
\* returned nothing.
C18_SuccessStoresTheReturnedValue ==
    (Finished /\ JobRan /\ raised = NoError) =>
        LET t == task.taskId
            returned == result.taskResult
        IN  /\ tasks[t].status = "completed"
            /\ tasks[t].progress = "null"
            /\ \E r \in ResultOf(t) :
                  /\ results[r].error = "null"
                  /\ results[r].data =
                        IF returned = Undefined THEN JSONstringify(EmptyObject)
                        ELSE JSONstringify(returned)

\* The persisted upstream dependencies of task v
Producers(v) == {u \in DOMAIN tasks : tasks[u].dependant = v}

\* C19: while the worker handles a task, the only other task whose status
\* changes is that task's immediate consumer, and only when the job failed;
\* a task is Skipped only if one of its own upstream dependencies Failed, so
\* a task whose only upstream dependency is Skipped is never Skipped itself:
\* it stays Queued until the worker takes it, and has been handed to the
\* Task Runner once no task is Queued.
C19_FailureSkipsOnlyTheImmediateConsumer ==
    /\ [][\A v \in DOMAIN tasks :
            (v \in DOMAIN tasks' /\ tasks'[v].status # tasks[v].status) =>
               \/ v = task.taskId
               \/ /\ v = tasks[task.taskId].dependant
                  /\ raised # NoError
                  /\ tasks[task.taskId].status = "failed"]_vars
    /\ [](\A v \in DOMAIN tasks :
            /\ tasks[v].status = "skipped" =>
                  \E u \in Producers(v) : tasks[u].status = "failed"
            /\ (/\ Producers(v) # {}
                /\ \A u \in Producers(v) : tasks[u].status = "skipped"
                /\ NoneQueued)
               => tasks[v].status \in {"in_progress", "completed", "failed"})

C19_Witness ==
    \E wid \in DOMAIN workflows :
        /\ Cardinality(TasksOf(wid)) = 3
        /\ tasks[<<wid, 1>>].status = "failed"
        /\ tasks[<<wid, 1>>].dependant = <<wid, 2>>
        /\ tasks[<<wid, 2>>].status = "skipped"
        /\ tasks[<<wid, 2>>].dependant = <<wid, 3>>
        /\ Producers(<<wid, 3>>) = {<<wid, 2>>}
        /\ tasks[<<wid, 3>>].status = "completed"
        /\ <<wid, 2>> \notin DOMAIN invoked

\* The Result row of the current run has been inserted
ResultWritten == resultId \in DOMAIN results

\* The task's outcome (Completed or Failed) has been persisted
TaskWritten ==
    /\ tasks[task.taskId].status = task.status
    /\ task.status \in {"completed", "failed"}

\* The consumer, if any, is persisted as the entity holds it
ConsumerWritten ==
    task.dependant # NoTask => tasks[task.dependant].status = task.dependantStatus

\* C20: after a job returned or failed, the Result is written while the task
\* is still persisted InProgress, the task is written next, the consumer
\* after the task, and run() hands the error to the scheduler (or goes on to
\* the recompute) only when all the writes are done: Result, Task Failed,
\* consumer Skipped.
C20_HousekeepingOrderThenRethrow ==
    /\ pc = "save_result" =>
          ~ResultWritten /\ tasks[task.taskId].status = "in_progress"
    /\ pc = "save_task" =>
          ResultWritten /\ tasks[task.taskId].status = "in_progress"
    /\ pc = "save_dependant" =>
          ResultWritten /\ TaskWritten
    /\ (pc \in {"sleep", "recompute"} /\ task.taskId # NoTask /\ JobRan) =>
          ResultWritten /\ TaskWritten /\ ConsumerWritten
    /\ (pc = "sleep" /\ task.taskId # NoTask /\ raised \in JobErrors) =>
          /\ results[resultId].error = raised
          /\ tasks[task.taskId].status = "failed"
          /\ task.dependant # NoTask => tasks[task.dependant].status = "skipped"

C20_Witness ==
    /\ pc = "sleep" /\ raised \in JobErrors
    /\ task.dependant # NoTask
    /\ tasks[task.dependant].status = "skipped"
    /\ \E t \in DOMAIN tasks :
          /\ tasks[t].status = "completed"
          /\ tasks[t].dependant # NoTask
          /\ tasks[tasks[t].dependant].status # "skipped"

\* C21: a create-workflow call is rejected whenever a step of the definition
\* has a step number that is not positive (absent or zero, both read as 0
\* here, or negative).
C21_NonPositiveStepNumberIsRejected ==
    (outcome.op = "create"
        /\ \E k \in 1..Len(request.steps) : request.steps[k].stepNumber <= 0)
    => outcome.error # NoError

\* The first rule a step breaks, in the order task type, step number
\* (present and positive), dependency (every dependsOn below the step's own
\* number); NoError when it breaks none
FirstBrokenRule(step) ==
    IF step.taskType = "" THEN ErrTaskType
    ELSE IF step.stepNumber <= 0 THEN ErrStepNumber
    ELSE IF \E d \in step.dependsOn : d >= step.stepNumber THEN ErrDependsOn
    ELSE NoError

\* C22: the error of a rejected create-workflow call is the first broken
\* rule of the first step in list order that breaks a rule; it is the
\* duplicate-step-number error only when no step breaks one of the three
\* rules.
C22_FirstViolationIsReported ==
    (outcome.op = "create" /\ outcome.error # NoError) =>
        LET steps == request.steps
            bad == {k \in 1..Len(steps) : FirstBrokenRule(steps[k]) # NoError}
        IN  IF bad # {}
            THEN outcome.error = FirstBrokenRule(steps[Min(bad)])
            ELSE outcome.error = ErrUnique /\ HasDuplicateStepNumber(steps)

\* Task a comes no later than task b in the order (workflow id, step number)
KeyNotAfter(a, b) ==
    \/ tasks[a].workflowId < tasks[b].workflowId
    \/ /\ tasks[a].workflowId = tasks[b].workflowId
       /\ tasks[a].stepNumber <= tasks[b].stepNumber

\* C23: a poll (a step of the sleeping worker) hands to the Task Runner the
\* Queued task with the smallest (workflow id, step number) over all
\* workflows; with no Queued task it runs no job and leaves the workflows,
\* tasks and results tables as they are.
C23_PollTakesTheSmallestQueuedTask ==
    [][(pc = "sleep" /\ creating' = creating) =>
          IF NoneQueued
          THEN /\ UNCHANGED <<workflows, tasks, results, invoked>>
               /\ pc' = "sleep"
          ELSE /\ pc' = "run"
               /\ tasks[task'.taskId].status = "queued"
               /\ \A u \in DOMAIN tasks :
                     tasks[u].status = "queued" => KeyNotAfter(task'.taskId, u)]_vars

C23_Witness ==
    /\ pc = "run"
    /\ \E u \in DOMAIN tasks :
          /\ tasks[u].status = "queued"
          /\ tasks[u].workflowId > task.workflowId
          /\ tasks[u].stepNumber < tasks[task.taskId].stepNumber
    /\ \E v \in DOMAIN tasks : tasks[v].status = "completed"

\* C24: every dependency edge, in the graph populateDependencies builds for
\* an accepted definition and in the persisted tasks, links two tasks of one
\* workflow and goes from a task to a task with a strictly larger step
\* number: no self-dependency and no cycle.
C24_EdgesGoToLargerStepNumbers ==
    /\ \A u \in DOMAIN tasks :
          LET t == tasks[u].dependant
          IN  t # NoTask =>
                /\ t \in DOMAIN tasks
                /\ tasks[t].workflowId = tasks[u].workflowId
                /\ tasks[u].stepNumber < tasks[t].stepNumber
    /\ creating.stage = "tasks" =>
          LET steps == creating.steps
              deps == populateDependencies(steps)
          IN  \A i \in 1..Len(steps) : \A j \in deps[i] :
                 steps[j].stepNumber < steps[i].stepNumber

C24_Witness ==
    /\ outcome.op = "create" /\ outcome.error = NoError
    /\ Len(request.steps) = 2
    /\ request.steps[1].stepNumber > request.steps[2].stepNumber
    /\ tasks[<<outcome.workflowId, 2>>].dependant = <<outcome.workflowId, 1>>

\* The Result rows created by the runs of task t
ResultsCreatedFor(t) == {r \in DOMAIN results : r[1] = t}

\* C25: a task is handed to the Task Runner only while Queued and never
\* becomes Queued again, so it is handed at most once; its job is invoked at
\* most once and at most one Result is created for it; in particular a
\* Failed task is never run again.
C25_NoTaskRunsTwice ==
    /\ [](\A t \in DOMAIN tasks :
            /\ t \in DOMAIN invoked => invoked[t] = 1
            /\ Cardinality(ResultsCreatedFor(t)) <= 1
            /\ ResultsCreatedFor(t) # {} => t \in DOMAIN invoked)
    /\ [][/\ (pc = "sleep" /\ pc' = "run") =>
                /\ tasks[task'.taskId].status = "queued"
                /\ task'.taskId \notin DOMAIN invoked
          /\ \A t \in DOMAIN tasks :
                tasks[t].status # "queued" => tasks'[t].status # "queued"]_vars

C25_Witness ==
    /\ pc = "sleep" /\ task.taskId = NoTask
    /\ \E t, u \in DOMAIN tasks :
          /\ tasks[t].status = "failed"
          /\ invoked[t] = 1
          /\ Cardinality(ResultsCreatedFor(t)) = 1
          /\ tasks[u].status = "completed"
          /\ KeyNotAfter(t, u)

\* C26: a step of the worker (any step that is not part of a create-workflow
\* call) deletes no workflow, task or Result, changes no workflow's input or
\* client id, no task's step number, type, workflow, client id or dependant,
\* and no payload of an existing Result; it writes a status and report only
\* on the workflow of the task in hand.
C26_RunningWritesOnlyStatusAndResults ==
    [][creating' = creating =>
          /\ DOMAIN workflows' = DOMAIN workflows
          /\ DOMAIN tasks' = DOMAIN tasks
          /\ DOMAIN results \subseteq DOMAIN results'
          /\ \A w \in DOMAIN workflows :
                /\ workflows'[w].input = workflows[w].input
                /\ workflows'[w].clientId = workflows[w].clientId
                /\ w # task.workflowId => workflows'[w] = workflows[w]
          /\ \A t \in DOMAIN tasks :
                /\ tasks'[t].stepNumber = tasks[t].stepNumber
                /\ tasks'[t].taskType = tasks[t].taskType
                /\ tasks'[t].workflowId = tasks[t].workflowId
                /\ tasks'[t].clientId = tasks[t].clientId
                /\ tasks'[t].dependant = tasks[t].dependant
          /\ \A r \in DOMAIN results :
                /\ results'[r].data = results[r].data
                /\ results'[r].error = results[r].error]_vars

C26_Witness ==
    /\ Finished /\ JobRan /\ raised = NoError
    /\ workflows[task.workflowId].status = "in_progress"
    /\ workflows[task.workflowId].finalResult # NoReport
    /\ workflows[task.workflowId].input = JSONstringify([t |-> "object", v |-> "geoJson"])
    /\ tasks[task.taskId].dependant # NoTask
    /\ ResultOf(task.taskId) # {}

\* C27: in every state a workflow with a Skipped task has a Failed task, so
\* the tasks of a workflow that are not Completed are never all Skipped.
C27_SkippedImpliesFailedInWorkflow ==
    \A wid \in DOMAIN workflows :
        LET ts == TasksOf(wid)
            open == {t \in ts : tasks[t].status # "completed"}
        IN  /\ (\E t \in ts : tasks[t].status = "skipped") =>
                  (\E u \in ts : tasks[u].status = "failed")
            /\ open # {} => \E t \in open : tasks[t].status # "skipped"

C27_Witness ==
    \E wid \in DOMAIN workflows :
        /\ workflows[wid].status = "failed"
        /\ \E t, u \in TasksOf(wid) :
              /\ tasks[t].status = "skipped"
              /\ tasks[u].status = "failed"

\* C28: in every state at most one task is persisted InProgress, and once
\* run() has returned or raised for a task that task is not InProgress.
C28_AtMostOneInProgressAndNoneAfterRun ==
    /\ Cardinality({t \in DOMAIN tasks : tasks[t].status = "in_progress"}) <= 1
    /\ Finished => tasks[task.taskId].status # "in_progress"

====
